---- MODULE Spec2Model ----
(***************************************************************************)
(* Model of chatbot_app.py (Streamlit product chatbot).                    *)
(*                                                                         *)
(* A text value is a sequence of one-character strings.  A data frame is   *)
(* a sequence of records with the six column names the loader assigns.     *)
(* The Streamlit script is a sequential program that runs from the top on  *)
(* every user interaction; pc is its position, "idle" between runs.        *)
(***************************************************************************)
EXTENDS Integers, Sequences, FiniteSets, TLC

VARIABLES
    pc,               \* position of the script run ("idle" between runs)
    uploaded_file,    \* st.sidebar.file_uploader value (NoFile = None)
    default_file,     \* what is on disk at 'Matriz_Edificacion.xlsx'
    cache,            \* st.cache_data store of load_product_data: key -> frame
    product_data,     \* the data frame of the current run
    load_exc,         \* exception of the load block of the current run
    product_names,    \* options of the selectbox as last rendered
    sel_index,        \* selectbox widget state: chosen position in options
    selected_product, \* value returned by st.sidebar.selectbox
    user_question,    \* value of st.sidebar.text_input
    button,           \* st.sidebar.button value of the current run
    product_info,     \* result of get_product_info in the current run
    prompt,           \* prompt rendered by generate_chatbot_response
    api,              \* the external call in flight / its outcome
    answer,           \* value returned by generate_chatbot_response
    conversation,     \* st.session_state['conversation']
    shown,            \* sidebar messages of the current run
    uncaught,         \* exception that escaped and ended the run, or "none"
    appended,         \* history variable: every pair ever appended, in order
    api_calls,        \* history variable: external calls made in this run
    run_appends,      \* history variable: appends made in this run
    conversation0,    \* history variable: the conversation when this run began
    visited           \* history variable: stages this interaction went through

vars == << pc, uploaded_file, default_file, cache, product_data, load_exc,
           product_names, sel_index, selected_product, user_question, button,
           product_info, prompt, api, answer, conversation, shown,
           uncaught, appended, api_calls, run_appends, conversation0,
           visited >>

\* ------------------------------------------------------------------ bounds
MaxNameLen  == 2    \* longest product name drawn for the lookup inputs
MaxQueryLen == 2    \* longest query drawn for the lookup inputs
MaxRows     == 2    \* most catalog rows drawn for the lookup inputs
MaxSrcRows  == 3    \* most sheet rows (below the header) drawn for the loader
NumTags     == 3    \* distinct row contents drawn for the loader
MaxTextLen  == 3    \* longest generated text drawn for the pipeline
MaxAppends  == 6    \* appends explored in one session

MAX_HISTORY == 5

\* ------------------------------------------------------------------- texts
None == <<"None">>            \* Python None where a text is expected
NoRecord == <<>>              \* Python None where a dict is expected; a dict
Some(r) == <<r>>              \* d is <<d>>

NameChars  == {"a", "B"}
QueryChars == {"a", "A", "b", "$"}
TextChars  == {" ", "x"}

SeqsUpTo(S, n) == UNION {[1..k -> S] : k \in 0..n}

\* str.lower() on the characters of the model
Lower(c) == CASE c = "A" -> "a" [] c = "B" -> "b" [] OTHER -> c

\* Python `needle in hay` after lower-casing both: literal containment.
ContainsIgnoreCase(hay, needle) ==
    \E i \in 0..(Len(hay) - Len(needle)) :
        \A j \in 1..Len(needle) : Lower(hay[i + j]) = Lower(needle[j])

\* re.compile(pat, re.IGNORECASE) matched at offset `start` of `text`
\* (start = number of characters skipped).  The only metacharacter of the
\* model's alphabet is "$", which consumes nothing and holds at the end of
\* the text; every other character matches itself ignoring case.
RECURSIVE MatchAt(_, _, _, _)
MatchAt(pat, k, text, pos) ==
    IF k > Len(pat) THEN TRUE
    ELSE IF pat[k] = "$"
         THEN pos = Len(text) + 1 /\ MatchAt(pat, k + 1, text, pos)
         ELSE /\ pos <= Len(text)
              /\ Lower(pat[k]) = Lower(text[pos])
              /\ MatchAt(pat, k + 1, text, pos + 1)

\* pattern.search(text) is not None
RegexSearch(pat, text) == \E s \in 1..(Len(text) + 1) : MatchAt(pat, 1, text, s)

\* Series.str.contains(pat, case=False, na=False) on one cell: regex=True is
\* the default, so pat is compiled as a regular expression.
str_contains(pat, cell) == RegexSearch(pat, cell)

\* ------------------------------------------------------------ get_product_info
\* positions of the rows of `data` the boolean mask keeps, in frame order
MatchingRows(product_name, data) ==
    {i \in 1..Len(data) : str_contains(product_name, data[i].Producto)}

Min(S) == CHOOSE m \in S : \A x \in S : m <= x
\* product_row.iloc[0].to_dict() when the mask keeps a row, else None.
\* A non-text product_name (None, from an empty selectbox) makes
\* str.contains raise; the caller models that case (see LookUp).
get_product_info(product_name, data) ==
    LET rows == MatchingRows(product_name, data)
    IN  IF rows # {} THEN Some(data[Min(rows)]) ELSE NoRecord

\* ------------------------------------------------------------ load_product_data
\* A file: kind "table" is a readable sheet whose header row pandas consumes,
\* `rows` are the sheet rows below the header, each a sequence of ncols cells.
NoFile  == [kind |-> "none",    ncols |-> 0, rows |-> <<>>]
Missing == [kind |-> "missing", ncols |-> 0, rows |-> <<>>]
Corrupt == [kind |-> "corrupt", ncols |-> 0, rows |-> <<>>]
Table(n, rs) == [kind |-> "table", ncols |-> n, rows |-> rs]

NumColumns == 6
\* df.columns = ["Index", "Producto", "Descripción", "Beneficios",
\*               "Aplicación", "Recomendaciones de Uso"]
NameColumns(row) ==
    [Index |-> row[1], Producto |-> row[2], Descripcion |-> row[3],
     Beneficios |-> row[4], Aplicacion |-> row[5], Recomendaciones |-> row[6]]

Raised(e) == [exc |-> e, df |-> <<>>]
Returned(d) == [exc |-> "none", df |-> d]

\* variant: the sentinel row is not dropped
BugKeepFirstRow(file) ==
    IF file.kind = "missing" THEN Raised("FileNotFoundError")
    ELSE IF file.kind # "table" THEN Raised("ValueError")
    ELSE IF file.ncols # NumColumns THEN Raised("ValueError")
    ELSE Returned([i \in 1..Len(file.rows) |-> NameColumns(file.rows[i])])
\* pd.read_excel, the column renaming, df.drop(0).reset_index(drop=True).
\* read_excel raises on a missing or unreadable file, the renaming raises
\* ValueError unless the sheet has exactly six columns, and drop(0) raises
\* KeyError when there is no row labelled 0 (a sheet with only a header).
load_product_data(file) ==
    IF file.kind = "missing" THEN Raised("FileNotFoundError")
    ELSE IF file.kind # "table" THEN Raised("ValueError")
    ELSE IF file.ncols # NumColumns THEN Raised("ValueError")
    ELSE IF Len(file.rows) = 0 THEN Raised("KeyError")
    ELSE Returned([i \in 1..(Len(file.rows) - 1) |-> NameColumns(file.rows[i + 1])])

\* ---------------------------------------------------- generate_chatbot_response
RenderPrompt(info, question) ==
    <<"Eres un asistente ... en español.", "**Nombre del Producto**: ">>
      \o info.Producto
      \o <<"**Descripción**: ">> \o info.Descripcion
      \o <<"**Beneficios**: ">> \o info.Beneficios
      \o <<"**Aplicación**: ">> \o info.Aplicacion
      \o <<"**Recomendaciones de Uso**: ">> \o info.Recomendaciones
      \o <<"**Pregunta del Usuario**: ">> \o question
      \o <<"**Respuesta**:">>

\* str.strip(): leading and trailing whitespace removed
RECURSIVE LStrip(_)
LStrip(s) == IF s # <<>> /\ Head(s) = " " THEN LStrip(Tail(s)) ELSE s
RECURSIVE RStrip(_)
RStrip(s) == IF s # <<>> /\ s[Len(s)] = " " THEN RStrip(SubSeq(s, 1, Len(s) - 1)) ELSE s
Strip(s) == RStrip(LStrip(s))

OpenAIErrorText    == <<"Ocurrió un error al procesar tu solicitud: ">>
UnexpectedErrorText == <<"Ocurrió un error inesperado: ">>

\* What openai.ChatCompletion.create does: it returns a response whose
\* message content is `text`, or raises an OpenAIError or another Exception
\* whose str() is `text`.
ApiOutcome(kind, text) == [kind |-> kind, text |-> text]
NoCall == ApiOutcome("none", <<>>)
Pending == ApiOutcome("pending", <<>>)

Answer(text) == [exc |-> "none", text |-> text]
Escaped(e) == [exc |-> e, text |-> <<>>]

\* variant: the `except Exception` clause is missing
BugOnlyOpenAIErrorCaught(info, question, outcome) ==
    CASE outcome.kind = "ok" -> Answer(Strip(outcome.text))
      [] outcome.kind = "OpenAIError" -> Answer(OpenAIErrorText \o outcome.text)
      [] OTHER -> Escaped(outcome.kind)
\* the try/except of generate_chatbot_response, given how the call ended
generate_chatbot_response(info, question, outcome) ==
    CASE outcome.kind = "ok" -> Answer(Strip(outcome.text))
      [] outcome.kind = "OpenAIError" -> Answer(OpenAIErrorText \o outcome.text)
      [] OTHER -> Answer(UnexpectedErrorText \o outcome.text)

\* ------------------------------------------------------------- the session
\* Sheets a user of the modelled session has at hand.
SheetRow(idx, name) ==
    << <<idx>>, name, <<"D", idx>>, <<"B", idx>>, <<"A", idx>>, <<"U", idx>> >>
SentinelRow == SheetRow("0", <<"-">>)
FileA == Table(6, << SentinelRow, SheetRow("1", <<"a", "B">>), SheetRow("2", <<"a">>) >>)
FileB == Table(6, << SentinelRow, SheetRow("1", <<"B", "$">>) >>)
FileE == Table(6, << SentinelRow >>)
Uploads == {NoFile, Corrupt, FileA, FileB, FileE}
DefaultFiles == {Missing, FileA}
Questions == {<<>>, <<"x">>}
SessionOutcomes ==
    {ApiOutcome("ok", <<" ", "x">>), ApiOutcome("OpenAIError", <<"x">>)}

\* default_file_path = 'Matriz_Edificacion.xlsx' as a cache key
PathKey == [kind |-> "path", ncols |-> 0, rows |-> <<>>]
\* the argument the load block passes to load_product_data, and the file behind it
LoadKey == IF uploaded_file # NoFile THEN uploaded_file ELSE PathKey
LoadSource == IF uploaded_file # NoFile THEN uploaded_file ELSE default_file

Last(s) == s[Len(s)]
LastN(s, n) == IF Len(s) <= n THEN s ELSE SubSeq(s, Len(s) - n + 1, Len(s))
Names(data) == [i \in 1..Len(data) |-> data[i].Producto]

InitSession ==
    /\ pc = "load"
    /\ uploaded_file = NoFile
    /\ default_file \in DefaultFiles
    /\ cache = {}
    /\ product_data = <<>>
    /\ load_exc = "none"
    /\ product_names = <<>>
    /\ sel_index = 1
    /\ selected_product = None
    /\ user_question = <<>>
    /\ button = FALSE
    /\ product_info = NoRecord
    /\ prompt = <<>>
    /\ api = NoCall
    /\ answer = <<>>
    /\ conversation = <<>>
    /\ shown = {}
    /\ uncaught = "none"
    /\ appended = <<>>
    /\ api_calls = 0
    /\ run_appends = 0
    /\ conversation0 = <<>>
    /\ visited = <<>>

\* A widget interaction (or a plain rerun) makes Streamlit run the script
\* from the top; the values of the previous run's locals are gone.
StartRun(btn) ==
    /\ pc = "idle"
    /\ pc' = "load"
    /\ button' = btn
    /\ product_data' = <<>>
    /\ load_exc' = "none"
    /\ selected_product' = None
    /\ product_info' = NoRecord
    /\ prompt' = <<>>
    /\ api' = NoCall
    /\ answer' = <<>>
    /\ shown' = {}
    /\ uncaught' = "none"
    /\ api_calls' = 0
    /\ run_appends' = 0
    /\ conversation0' = conversation
    /\ visited' = <<>>
    /\ UNCHANGED << default_file, cache, conversation, appended >>

\* the widgets below the load block exist only if the last run rendered them
WidgetsRendered == load_exc = "none"

Upload(f) ==
    /\ f # uploaded_file
    /\ uploaded_file' = f
    /\ StartRun(FALSE)
    /\ UNCHANGED << product_names, sel_index, user_question >>

SelectProduct(i) ==
    /\ WidgetsRendered
    /\ i \in 1..Len(product_names)
    /\ i # sel_index
    /\ sel_index' = i
    /\ StartRun(FALSE)
    /\ UNCHANGED << uploaded_file, product_names, user_question >>

TypeQuestion(q) ==
    /\ WidgetsRendered
    /\ q # user_question
    /\ user_question' = q
    /\ StartRun(FALSE)
    /\ UNCHANGED << uploaded_file, product_names, sel_index >>

ClickSubmit ==
    /\ WidgetsRendered
    /\ Len(appended) < MaxAppends
    /\ StartRun(TRUE)
    /\ UNCHANGED << uploaded_file, product_names, sel_index, user_question >>

Rerun ==
    /\ StartRun(FALSE)
    /\ UNCHANGED << uploaded_file, product_names, sel_index, user_question >>

\* ------------------------------------------------------ the script, top down
\* load_product_data behind @st.cache_data: a stored result is reused, a
\* raised exception is not stored.
CachedLoad ==
    IF \E e \in cache : e.key = LoadKey
    THEN Returned((CHOOSE e \in cache : e.key = LoadKey).df)
    ELSE load_product_data(LoadSource)

LoadMessage(exc) ==
    IF uploaded_file # NoFile
    THEN (IF exc = "none" THEN "upload_loaded" ELSE "upload_error")
    ELSE (IF exc = "none" THEN "default_loaded"
          ELSE IF exc = "FileNotFoundError" THEN "default_missing"
          ELSE "default_error")

\* variant: the load block goes on after an exception (no st.stop())
BugLoadErrorIgnored ==
    /\ pc = "load"
    /\ LET r == CachedLoad
       IN  /\ cache' = IF r.exc = "none" THEN cache \cup {[key |-> LoadKey, df |-> r.df]}
                       ELSE cache
           /\ shown' = shown \cup {LoadMessage(r.exc)}
           /\ load_exc' = "none"
           /\ product_data' = r.df
           /\ pc' = "widgets"
           /\ UNCHANGED << product_names, sel_index, user_question >>
    /\ UNCHANGED << uploaded_file, default_file, selected_product, button,
                    product_info, prompt, api, answer, conversation, appended,
                    api_calls, run_appends, conversation0, visited,
                    uncaught >>
\* The load block: on an exception the message is shown and st.stop() ends
\* the run, so the widgets below are not rendered and lose their state.
LoadData ==
    /\ pc = "load"
    /\ LET r == CachedLoad
       IN  /\ cache' = IF r.exc = "none" THEN cache \cup {[key |-> LoadKey, df |-> r.df]}
                       ELSE cache
           /\ shown' = shown \cup {LoadMessage(r.exc)}
           /\ load_exc' = r.exc
           /\ IF r.exc = "none"
              THEN /\ product_data' = r.df
                   /\ pc' = "widgets"
                   /\ UNCHANGED << product_names, sel_index, user_question >>
              ELSE /\ product_data' = <<>>
                   /\ pc' = "idle"
                   /\ product_names' = <<>>
                   /\ sel_index' = 1
                   /\ user_question' = <<>>
    /\ UNCHANGED << uploaded_file, default_file, selected_product, button,
                    product_info, prompt, api, answer, conversation, appended,
                    api_calls, run_appends, conversation0, visited,
                    uncaught >>

\* The selectbox over product_data['Producto'].tolist(): None without
\* options; a selectbox whose options changed starts at its first option.
Widgets ==
    /\ pc = "widgets"
    /\ LET options == Names(product_data)
           index == IF options = product_names THEN sel_index ELSE 1
       IN  /\ product_names' = options
           /\ sel_index' = index
           /\ selected_product' = IF options = <<>> THEN None ELSE options[index]
    /\ pc' = "button"
    /\ UNCHANGED << uploaded_file, default_file, cache, product_data, load_exc,
                    user_question, button, product_info, prompt, api, answer,
                    conversation, shown, appended, api_calls, run_appends,
                    conversation0, visited,
                    uncaught >>

\* if st.sidebar.button(...): if not user_question: warning
SubmitHandler ==
    /\ pc = "button"
    /\ IF ~button
       THEN pc' = "trim" /\ UNCHANGED << shown, visited >>
       ELSE IF user_question = <<>>
       THEN /\ shown' = shown \cup {"warning_empty_question"}
            /\ visited' = <<"Validating", "Rejected">>
            /\ pc' = "trim"
       ELSE /\ visited' = <<"Validating">>
            /\ pc' = "lookup"
            /\ UNCHANGED shown
    /\ UNCHANGED << uploaded_file, default_file, cache, product_data, load_exc,
                    product_names, sel_index, selected_product, user_question,
                    button, product_info, prompt, api, answer, conversation,
                    appended, api_calls, run_appends, conversation0,
                    uncaught >>

\* variant: get_product_info indexes iloc[0] without the emptiness test
BugNotFoundRaises ==
    /\ pc = "lookup"
    /\ selected_product # None
    /\ LET info == get_product_info(selected_product, product_data)
       IN  /\ product_info' = info
           /\ IF info = NoRecord
              THEN /\ uncaught' = "IndexError"
                   /\ visited' = visited \o <<"Looking-up", "NotFound">>
                   /\ pc' = "idle"
              ELSE /\ visited' = visited \o <<"Looking-up">>
                   /\ pc' = "generate"
                   /\ UNCHANGED uncaught
    /\ UNCHANGED << uploaded_file, default_file, cache, product_data, load_exc,
                    product_names, sel_index, selected_product, user_question,
                    button, prompt, api, answer, conversation, shown, appended,
                    api_calls, run_appends, conversation0 >>
\* product_info = get_product_info(selected_product, product_data) and the
\* branch on it.  With selected_product None, str.contains raises and the
\* uncaught exception ends the run.
LookUp ==
    /\ pc = "lookup"
    /\ IF selected_product = None
       THEN /\ uncaught' = "TypeError"
            /\ visited' = visited \o <<"Looking-up">>
            /\ pc' = "idle"
            /\ UNCHANGED << product_info, shown >>
       ELSE LET info == get_product_info(selected_product, product_data)
            IN  /\ product_info' = info
                /\ IF info = NoRecord
                   THEN /\ shown' = shown \cup {"error_not_found"}
                        /\ visited' = visited \o <<"Looking-up", "NotFound">>
                        /\ pc' = "trim"
                   ELSE /\ visited' = visited \o <<"Looking-up">>
                        /\ pc' = "generate"
                        /\ UNCHANGED shown
                /\ UNCHANGED uncaught
    /\ UNCHANGED << uploaded_file, default_file, cache, product_data, load_exc,
                    product_names, sel_index, selected_product, user_question,
                    button, prompt, api, answer, conversation, appended,
                    api_calls, run_appends, conversation0 >>

\* generate_chatbot_response up to the call: the prompt is rendered and
\* openai.ChatCompletion.create is entered.
Generate ==
    /\ pc = "generate"
    /\ prompt' = RenderPrompt(product_info[1], user_question)
    /\ api' = Pending
    /\ api_calls' = api_calls + 1
    /\ visited' = visited \o <<"Generating">>
    /\ pc' = "await"
    /\ UNCHANGED << uploaded_file, default_file, cache, product_data, load_exc,
                    product_names, sel_index, selected_product, user_question,
                    button, product_info, answer, conversation, shown, appended,
                    run_appends, conversation0,
                    uncaught >>

\* variant: a failed call is made again
BugRetryOnError(outcome) ==
    /\ pc = "await"
    /\ api' = outcome
    /\ IF outcome.kind = "ok"
       THEN /\ answer' = generate_chatbot_response(product_info[1], user_question, outcome).text
            /\ pc' = "append"
       ELSE /\ pc' = "generate"
            /\ UNCHANGED answer
    /\ UNCHANGED << uploaded_file, default_file, cache, product_data, load_exc,
                    product_names, sel_index, selected_product, user_question,
                    button, product_info, prompt, conversation, shown, uncaught,
                    appended, api_calls, run_appends, conversation0, visited >>
\* the call ends (it returns or raises) and generate_chatbot_response
\* returns; an exception it let through would end the run
ApiReturn(outcome) ==
    /\ pc = "await"
    /\ api' = outcome
    /\ LET r == generate_chatbot_response(product_info[1], user_question, outcome)
       IN  /\ answer' = r.text
           /\ uncaught' = r.exc
           /\ pc' = IF r.exc = "none" THEN "append" ELSE "idle"
    /\ UNCHANGED << uploaded_file, default_file, cache, product_data, load_exc,
                    product_names, sel_index, selected_product, user_question,
                    button, product_info, prompt, conversation, shown, appended,
                    api_calls, run_appends, conversation0, visited >>

\* variant: only a successful answer is appended
BugAppendOnlyOnSuccess ==
    /\ pc = "append"
    /\ IF api.kind = "ok"
       THEN /\ conversation' = Append(conversation, <<user_question, answer>>)
            /\ appended' = Append(appended, <<user_question, answer>>)
            /\ run_appends' = run_appends + 1
       ELSE UNCHANGED << conversation, appended, run_appends >>
    /\ shown' = shown \cup {"success"}
    /\ visited' = visited \o <<"Answered">>
    /\ pc' = "trim"
    /\ UNCHANGED << uploaded_file, default_file, cache, product_data, load_exc,
                    product_names, sel_index, selected_product, user_question,
                    button, product_info, prompt, api, answer, api_calls,
                    conversation0,
                    uncaught >>
\* st.session_state['conversation'].append((user_question, answer))
AppendAnswer ==
    /\ pc = "append"
    /\ conversation' = Append(conversation, <<user_question, answer>>)
    /\ appended' = Append(appended, <<user_question, answer>>)
    /\ run_appends' = run_appends + 1
    /\ shown' = shown \cup {"success"}
    /\ visited' = visited \o <<"Answered">>
    /\ pc' = "trim"
    /\ UNCHANGED << uploaded_file, default_file, cache, product_data, load_exc,
                    product_names, sel_index, selected_product, user_question,
                    button, product_info, prompt, api, answer, api_calls,
                    conversation0,
                    uncaught >>

\* variant: pop() instead of pop(0)
BugTrimNewest ==
    /\ pc = "trim"
    /\ conversation' = IF Len(conversation) > MAX_HISTORY
                       THEN SubSeq(conversation, 1, Len(conversation) - 1)
                       ELSE conversation
    /\ pc' = "idle"
    /\ UNCHANGED << uploaded_file, default_file, cache, product_data, load_exc,
                    product_names, sel_index, selected_product, user_question,
                    button, product_info, prompt, api, answer, shown, appended,
                    api_calls, run_appends, conversation0, visited,
                    uncaught >>
\* if len(conversation) > MAX_HISTORY: conversation.pop(0); the script ends
Trim ==
    /\ pc = "trim"
    /\ conversation' = IF Len(conversation) > MAX_HISTORY
                       THEN Tail(conversation)
                       ELSE conversation
    /\ pc' = "idle"
    /\ UNCHANGED << uploaded_file, default_file, cache, product_data, load_exc,
                    product_names, sel_index, selected_product, user_question,
                    button, product_info, prompt, api, answer, shown, appended,
                    api_calls, run_appends, conversation0, visited,
                    uncaught >>

Next ==
    \/ \E f \in Uploads : Upload(f)
    \/ \E i \in 1..Len(product_names) : SelectProduct(i)
    \/ \E q \in Questions : TypeQuestion(q)
    \/ ClickSubmit
    \/ Rerun
    \/ LoadData
    \/ Widgets
    \/ SubmitHandler
    \/ LookUp
    \/ Generate
    \/ \E o \in SessionOutcomes : ApiReturn(o)
    \/ AppendAnswer
    \/ Trim

Spec == InitSession /\ [][Next]_vars

\* ------------------------------------------- the functions called on their own
\* everything a call on its own does not read or write
Quiet ==
    /\ default_file = Missing
    /\ cache = {}
    /\ product_names = <<>>
    /\ sel_index = 1
    /\ button = FALSE
    /\ conversation = <<>>
    /\ shown = {}
    /\ uncaught = "none"
    /\ appended = <<>>
    /\ api_calls = 0
    /\ run_appends = 0
    /\ conversation0 = <<>>
    /\ visited = <<>>

QuietUnchanged ==
    UNCHANGED << default_file, cache, product_names, sel_index, button,
                 conversation, shown, appended, api_calls, run_appends,
                 conversation0, visited >>

\* get_product_info(q, catalog) for every drawn catalog and query
ProductNames == SeqsUpTo(NameChars, MaxNameLen) \ {<<>>}
Queries == SeqsUpTo(QueryChars, MaxQueryLen)
FrameOf(names) ==
    [i \in 1..Len(names) |->
        NameColumns(<< <<i>>, names[i], <<"D">>, <<"B">>, <<"A">>, <<"U">> >>)]
Catalogs == {FrameOf(ns) : ns \in SeqsUpTo(ProductNames, MaxRows)}

InitLookup ==
    /\ pc = "call"
    /\ product_data \in Catalogs
    /\ selected_product \in Queries
    /\ uploaded_file = NoFile
    /\ load_exc = "none"
    /\ user_question = <<>>
    /\ product_info = NoRecord
    /\ prompt = <<>>
    /\ api = NoCall
    /\ answer = <<>>
    /\ Quiet

CallLookup ==
    /\ pc = "call"
    /\ product_info' = get_product_info(selected_product, product_data)
    /\ pc' = "returned"
    /\ UNCHANGED << uploaded_file, product_data, load_exc, selected_product,
                    user_question, prompt, api, answer, uncaught >>
    /\ QuietUnchanged

SpecLookup == InitLookup /\ [][CallLookup]_vars

\* load_product_data(file) for every drawn file
TagRow(t, n) == [c \in 1..n |-> <<t, c>>]
Sheets ==
    {Table(n, [i \in 1..Len(ts) |-> TagRow(ts[i], n)]) :
        n \in (NumColumns - 1)..(NumColumns + 1),
        ts \in SeqsUpTo(1..NumTags, MaxSrcRows)}
LoaderInputs == {Missing, Corrupt} \cup Sheets

InitLoad ==
    /\ pc = "call"
    /\ uploaded_file \in LoaderInputs
    /\ product_data = <<>>
    /\ load_exc = "none"
    /\ selected_product = None
    /\ user_question = <<>>
    /\ product_info = NoRecord
    /\ prompt = <<>>
    /\ api = NoCall
    /\ answer = <<>>
    /\ Quiet

CallLoad ==
    /\ pc = "call"
    /\ LET r == load_product_data(uploaded_file)
       IN  product_data' = r.df /\ load_exc' = r.exc
    /\ pc' = "returned"
    /\ UNCHANGED << uploaded_file, selected_product, user_question,
                    product_info, prompt, api, answer, uncaught >>
    /\ QuietUnchanged

SpecLoad == InitLoad /\ [][CallLoad]_vars

\* generate_chatbot_response(record, question) for every drawn way the
\* external call can end
Texts == SeqsUpTo(TextChars, MaxTextLen)
CallOutcomes == {ApiOutcome(k, t) : k \in {"ok", "OpenAIError", "Exception"}, t \in Texts}

InitAnswer ==
    /\ pc = "call"
    /\ product_info \in {Some(load_product_data(f).df[1]) : f \in {FileA, FileB}}
    /\ user_question \in Questions \ {<<>>}
    /\ api \in CallOutcomes
    /\ uploaded_file = NoFile
    /\ product_data = <<>>
    /\ load_exc = "none"
    /\ selected_product = None
    /\ prompt = <<>>
    /\ answer = <<>>
    /\ Quiet

CallAnswer ==
    /\ pc = "call"
    /\ prompt' = RenderPrompt(product_info[1], user_question)
    /\ LET r == generate_chatbot_response(product_info[1], user_question, api)
       IN  answer' = r.text /\ uncaught' = r.exc
    /\ pc' = "returned"
    /\ UNCHANGED << uploaded_file, product_data, load_exc, selected_product,
                    user_question, product_info, api >>
    /\ QuietUnchanged

SpecAnswer == InitAnswer /\ [][CallAnswer]_vars

\* ------------------------------------------------------------------ claims
Range(s) == {s[i] : i \in 1..Len(s)}
IsPrefix(p, s) == Len(p) <= Len(s) /\ \A i \in 1..Len(p) : p[i] = s[i]
ErrorIndicated(text) ==
    \/ IsPrefix(OpenAIErrorText, text)
    \/ IsPrefix(UnexpectedErrorText, text)

\* C1: between runs the conversation holds at most MAX_HISTORY pairs, and
\* they are the most recently appended pairs, oldest first: the sixth append
\* drops pair #1 and keeps #2..#6 in order.
C1_HistoryBounded ==
    pc = "idle" =>
        /\ Len(conversation) <= MAX_HISTORY
        /\ conversation = LastN(appended, MAX_HISTORY)

\* reached: six pairs appended, the conversation is pairs #2..#6
C1_SixthAppendDropsOldest ==
    /\ pc = "idle"
    /\ Len(appended) = MAX_HISTORY + 1
    /\ appended[1] # appended[2]
    /\ conversation = SubSeq(appended, 2, MAX_HISTORY + 1)

\* C2: generate_chatbot_response lets no exception through, whatever the
\* external call does; it returns a text, and when the call failed the text
\* is non-empty and begins with one of the two error messages.
C2_AnswerNeverRaises ==
    pc = "returned" =>
        /\ uncaught = "none"
        /\ answer \in Seq(TextChars \cup Range(OpenAIErrorText) \cup Range(UnexpectedErrorText))
        /\ api.kind # "ok" => (answer # <<>> /\ ErrorIndicated(answer))

\* reached: the call raised a non-OpenAI exception and a text came back
C2_FailedCallAnswered ==
    /\ pc = "returned"
    /\ api.kind = "Exception"
    /\ api.text = <<>>
    /\ answer = UnexpectedErrorText

\* the first record, in catalog order, whose name contains q ignoring case
FirstContaining(q, data) ==
    LET rows == {i \in 1..Len(data) : ContainsIgnoreCase(data[i].Producto, q)}
    IN  IF rows # {} THEN Some(data[Min(rows)]) ELSE NoRecord

\* C3: get_product_info(q, catalog) is the first record in catalog order
\* whose name contains q as a substring ignoring case, for every q.
C3_FirstContainingRecord ==
    pc = "returned" => product_info = FirstContaining(selected_product, product_data)

IsBlank(q) == \A i \in 1..Len(q) : q[i] = " "

\* C4: get_product_info yields NotFound whenever the name is empty or only
\* whitespace, and whenever no record's name contains it.
C4_BlankOrUnmatchedIsNotFound ==
    (pc = "returned" /\ (IsBlank(selected_product)
                         \/ FirstContaining(selected_product, product_data) = NoRecord))
        => product_info = NoRecord

\* C5: a run that reaches Generating appends exactly one pair, (question,
\* returned answer), at the end of the conversation, whether the external
\* call succeeded or failed; the append comes after the call has ended; a
\* run that does not reach Generating appends nothing.
C5_OneAppendPerGeneration ==
    /\ run_appends <= 1
    /\ pc \in {"generate", "await", "append"} =>
           (run_appends = 0 /\ conversation = conversation0)
    /\ run_appends = 1 => api.kind \in {"ok", "OpenAIError", "Exception"}
    /\ "Generating" \notin Range(visited) =>
           (run_appends = 0 /\ (pc = "idle" => conversation = conversation0))
    /\ (pc = "idle" /\ "Generating" \in Range(visited)) =>
           /\ run_appends = 1
           /\ Last(appended) = <<user_question, answer>>
           /\ conversation =
                  LastN(Append(conversation0, <<user_question, answer>>), MAX_HISTORY)
           /\ api.kind = "ok" => answer = Strip(api.text)
           /\ api.kind # "ok" => ErrorIndicated(answer)

\* reached: a failed call's error text was appended as the second pair
C5_FailedCallAppended ==
    /\ pc = "idle"
    /\ api.kind = "OpenAIError"
    /\ run_appends = 1
    /\ Len(conversation0) = 1
    /\ conversation = Append(conversation0, <<user_question, answer>>)

AllowedPaths ==
    { <<"Validating", "Rejected">>,
      <<"Validating", "Looking-up", "NotFound">>,
      <<"Validating", "Looking-up", "Generating", "Answered">> }

C7_RejectedOrNotFoundHarmless ==
    (pc = "idle" /\ visited # <<>> /\ Last(visited) \in {"Rejected", "NotFound"}) =>
        /\ conversation = conversation0
        /\ run_appends = 0
        /\ api_calls = 0
        /\ uncaught = "none"
        /\ WidgetsRendered
        /\ product_data = load_product_data(LoadSource).df
        /\ ENABLED Rerun

\* reached: a NotFound run ended with a full conversation
C7_NotFoundWithFullHistory ==
    /\ pc = "idle"
    /\ visited = <<"Validating", "Looking-up", "NotFound">>
    /\ Len(conversation) = MAX_HISTORY

\* C8: for a readable six-column sheet whose first row below the header is
\* the sentinel, followed by N >= 0 data rows, load_product_data returns
\* exactly the N data rows, in order, and raises nothing.
C8_LoadKeepsDataRows ==
    (/\ pc = "returned"
     /\ uploaded_file.kind = "table"
     /\ uploaded_file.ncols = NumColumns
     /\ Len(uploaded_file.rows) >= 1) =>
        /\ load_exc = "none"
        /\ Len(product_data) = Len(uploaded_file.rows) - 1
        /\ \A i \in 1..Len(product_data) :
              /\ product_data[i].Index = uploaded_file.rows[i + 1][1]
              /\ product_data[i].Producto = uploaded_file.rows[i + 1][2]
              /\ product_data[i].Descripcion = uploaded_file.rows[i + 1][3]
              /\ product_data[i].Beneficios = uploaded_file.rows[i + 1][4]
              /\ product_data[i].Aplicacion = uploaded_file.rows[i + 1][5]
              /\ product_data[i].Recomendaciones = uploaded_file.rows[i + 1][6]

\* reached: a sheet with the sentinel row only loaded as an empty frame
C8_SentinelOnlyLoadsEmpty ==
    /\ pc = "returned"
    /\ uploaded_file.kind = "table"
    /\ uploaded_file.ncols = NumColumns
    /\ Len(uploaded_file.rows) = 1
    /\ load_exc = "none"
    /\ product_data = <<>>

\* C9: a run whose load raises stops there: no lookup, no external call, no
\* change of the conversation, nothing escapes; and a run whose source is
\* loadable loads it, whatever failed before.
C9_LoadFailureHalts ==
    pc # "load" =>
        /\ load_exc # "none" =>
              /\ pc = "idle"
              /\ visited = <<>>
              /\ product_info = NoRecord
              /\ api_calls = 0
              /\ run_appends = 0
              /\ conversation = conversation0
              /\ uncaught = "none"
        /\ load_product_data(LoadSource).exc # "none" => load_exc # "none"
        /\ load_product_data(LoadSource).exc = "none" =>
              (load_exc = "none" /\ product_data = load_product_data(LoadSource).df)

\* reached: an unreadable upload halted a run of a session with history
C9_FailedUploadKeepsHistory ==
    /\ pc = "idle"
    /\ uploaded_file = Corrupt
    /\ load_exc = "ValueError"
    /\ "upload_error" \in shown
    /\ conversation # <<>>

\* C10: when a product picked in the selectbox is submitted with a
\* non-empty question, the lookup finds a record and it is the record of
\* the picked name.
C10_SelectedProductIsFound ==
    (/\ "Looking-up" \in Range(visited)
     /\ selected_product # None
     /\ pc # "lookup") =>
        /\ product_info # NoRecord
        /\ product_info[1].Producto = selected_product

====
